---- MODULE Spec2Model ----
(***************************************************************************)
(* Model of the YouTube comment sentiment aggregation of app/              *)
(* (video_comments_watson / video_comments_oa, called from mainApp.index)  *)
(* and of the label rollup of v6 (topCommentsOverallSentiment).            *)
(*                                                                         *)
(* Scores are floats in [-1, 1] in the program; here they are integers in  *)
(* tenths (5 stands for 0.5).  Every weighting formula of the program is   *)
(* linear in the score, so the scaling is exact; weights and like counts   *)
(* are whole numbers.                                                      *)
(***************************************************************************)
EXTENDS Integers, Sequences, FiniteSets, TLC

\* ------------------------------------------------------------------ bounds

\* Most comment threads one run is served, over all its pages.
MaxTotal == 4
\* Most items on one page.
MaxPageSize == 3
\* Most pages of a source; the last one carries no nextPageToken.
MaxPages == 2
\* Most comment threads one of two concurrent runs is served.
ConcMaxTotal == 2
\* Most comments the v6 rollup is given.
MaxV6 == 4
\* Most replies of the comment thread whose weighting is examined.
MaxReplies == 2

\* The requests that may be in flight at once.
Runs == {1, 2}

\* --------------------------------------------------------- python values

\* A form field of request.form: a string holding a numeral, a string that
\* is no numeral, or None (field missing).
NumStr(n) == [t |-> "str", num |-> TRUE, v |-> n]
BadStr == [t |-> "str", num |-> FALSE, v |-> 0]
None == [t |-> "none", num |-> FALSE, v |-> 0]

\* float(x): the number a numeral holds; ValueError for any other string,
\* TypeError for None.
PyFloat(x) ==
    IF x.num THEN [ok |-> TRUE, v |-> x.v, exc |-> ""]
    ELSE [ok |-> FALSE, v |-> 0,
          exc |-> IF x.t = "none" THEN "TypeError" ELSE "ValueError"]

\* {} : the empty dict.
EmptyDict == [k \in {} |-> 0]

\* ------------------------------------------------------ sentiment backends

Texts == {"good", "bad", "meh", "odd", "err", "fine", "nice"}

\* What the remote sentiment service does with a text: it answers with a
\* label and a score, or the call fails ("err").  "odd" is a text whose
\* label and score sign disagree.
Backend(text) ==
    CASE text = "good" -> [ok |-> TRUE, label |-> "positive", score |-> 5]
      [] text = "bad"  -> [ok |-> TRUE, label |-> "negative", score |-> -3]
      [] text = "meh"  -> [ok |-> TRUE, label |-> "neutral", score |-> 0]
      [] text = "odd"  -> [ok |-> TRUE, label |-> "positive", score |-> -2]
      [] text = "fine" -> [ok |-> TRUE, label |-> "positive", score |-> 2]
      [] text = "nice" -> [ok |-> TRUE, label |-> "positive", score |-> 4]
      [] OTHER         -> [ok |-> FALSE, label |-> "neutral", score |-> 0]

\* analyze_review_sentiments: the bare except maps every failure to
\* neutral / 0.00.
analyze_review_sentiments(text) ==
    LET response == Backend(text) IN
    IF response.ok
    THEN [raised |-> FALSE, label |-> response.label, score |-> response.score]
    ELSE [raised |-> FALSE, label |-> "neutral", score |-> 0]

\* analyze_comments_oa: no try/except; a failing call or an answer that
\* ast.literal_eval cannot read raises to the caller.  The prompt asks for
\* the score as a string ({label: "", score: ""}).
analyze_comments_oa(comment) ==
    LET response == Backend(comment) IN
    IF response.ok
    THEN [raised |-> FALSE, label |-> response.label,
          score |-> NumStr(response.score)]
    ELSE [raised |-> TRUE, label |-> "", score |-> BadStr]

\* The provider a run calls: video_comments_watson calls
\* analyze_review_sentiments, video_comments_oa calls analyze_comments_oa.
Analyze(model, text) ==
    IF model = "watsonnlu" THEN analyze_review_sentiments(text)
    ELSE analyze_comments_oa(text)

\* comment_sentiment['score'] as the run reads it: video_comments_watson
\* takes the number as it is, video_comments_oa converts it with float().
SentimentScore(model, sentiment) ==
    IF model = "watsonnlu" THEN [ok |-> TRUE, v |-> sentiment.score, exc |-> ""]
    ELSE PyFloat(sentiment.score)

\* ------------------------------------------------------- the run's locals

\* What video_comments_* returns, or how it ends.  kind is "summary" (the
\* comments_all dict), "INVALID ID", "COMMENTS DISABLED", "None" (the
\* function falls off its end) or the name of an exception that escapes.
NoResult == [kind |-> "running", value |-> EmptyDict]
Returns(kind, value) == [kind |-> kind, value |-> value]

\* A request that has not been made.
Idle ==
    [pc |-> "idle", model |-> "", max_input |-> 0, like_input |-> 0,
     reply_input |-> 0, comments_all |-> EmptyDict, comment_info |-> EmptyDict,
     replies |-> EmptyDict, counter |-> 0, video_response |-> EmptyDict,
     item_i |-> 0, reply_i |-> 0, comment_sentiment_score |-> 0,
     comment_sentiment_score_weighed |-> 0, result |-> NoResult]

\* The run ends: return or escaping exception.
Done(s, kind, value) ==
    [s EXCEPT !.pc = "done", !.result = Returns(kind, value)]

\* video_comments_watson / video_comments_oa up to the first
\* commentThreads().list().execute(): the three float() conversions and the
\* initial values of the locals.
Call(model, form) ==
    LET m == PyFloat(form.maxInput)
        l == PyFloat(form.likeInput)
        r == PyFloat(form.replyInput)
    IN  IF ~m.ok THEN Done([Idle EXCEPT !.model = model], m.exc, EmptyDict)
        ELSE IF ~l.ok THEN Done([Idle EXCEPT !.model = model], l.exc, EmptyDict)
        ELSE IF ~r.ok THEN Done([Idle EXCEPT !.model = model], r.exc, EmptyDict)
        ELSE [Idle EXCEPT
                !.pc = "fetch",
                !.model = model,
                !.max_input = m.v,
                !.like_input = l.v,
                !.reply_input = r.v,
                !.comments_all =
                    [reply_input |-> r.v,
                     like_input |-> l.v,
                     total_positive_com |-> 0,
                     total_negative_com |-> 0,
                     total_neutral_com |-> 0,
                     total_sentiment_label |-> 0,
                     total_sentiment_score |-> 0,
                     total_sentiment_score_weighed |-> 0,
                     comments |-> EmptyDict],
                !.counter = 1]

\* A loop that returns after the last item of a page without looking for
\* its nextPageToken.
NextItemIgnoresToken(s) ==
    IF s.item_i < Len(s.video_response.items)
    THEN [s EXCEPT !.pc = "comment", !.item_i = s.item_i + 1]
    ELSE Done(s, "summary", s.comments_all)

\* A loop without `else: return comments_all`: after the last item of a
\* page without nextPageToken it goes round without fetching or returning.
NextItemNeverReturns(s) ==
    IF s.item_i < Len(s.video_response.items)
    THEN [s EXCEPT !.pc = "comment", !.item_i = s.item_i + 1]
    ELSE IF s.video_response.nextPageToken
         THEN [s EXCEPT !.pc = "fetch"]
         ELSE [s EXCEPT !.pc = "while"]

\* The for loop over video_response['items'] moves to its next item; after
\* the last item the page's nextPageToken decides between another fetch and
\* `return comments_all`.
NextItem(s) ==
    IF s.item_i < Len(s.video_response.items)
    THEN [s EXCEPT !.pc = "comment", !.item_i = s.item_i + 1]
    ELSE IF s.video_response.nextPageToken
         THEN [s EXCEPT !.pc = "fetch"]
         ELSE Done(s, "summary", s.comments_all)

\* An except clause with the two status codes swapped.
OnHttpErrorSwapped(s, status) ==
    IF status = 403 THEN Done(s, "INVALID ID", EmptyDict)
    ELSE IF status = 404 THEN Done(s, "COMMENTS DISABLED", EmptyDict)
    ELSE Done(s, "None", EmptyDict)

\* An except clause that returns the records built so far when a fetch
\* fails after some were stored.
OnHttpErrorKeepsRecords(s, status) ==
    IF DOMAIN s.comments_all.comments # {}
    THEN Done(s, "summary", s.comments_all)
    ELSE IF status = 404 THEN Done(s, "INVALID ID", EmptyDict)
    ELSE IF status = 403 THEN Done(s, "COMMENTS DISABLED", EmptyDict)
    ELSE Done(s, "None", EmptyDict)

\* The except HttpError clause: 404 and 403 return a string, any other
\* status leaves the function without a return statement.
OnHttpError(s, status) ==
    IF status = 404 THEN Done(s, "INVALID ID", EmptyDict)
    ELSE IF status = 403 THEN Done(s, "COMMENTS DISABLED", EmptyDict)
    ELSE Done(s, "None", EmptyDict)

\* A fetch after which the comments are numbered from 1 again.
OnFetchResetsCounter(s, resp) ==
    IF resp.status # 200 THEN OnHttpError(s, resp.status)
    ELSE NextItem([s EXCEPT !.video_response = resp, !.item_i = 0,
                            !.counter = 1])

\* commentThreads().list(...).execute() has answered.
OnFetch(s, resp) ==
    IF resp.status # 200 THEN OnHttpError(s, resp.status)
    ELSE NextItem([s EXCEPT !.video_response = resp, !.item_i = 0])

\* The item the for loop is at.
CurrentItem(s) == s.video_response.items[s.item_i]

\* A cap test that lets one comment too many through.
CapReachedLate(max_input, counter) == max_input # 0 /\ counter > max_input

\* `if max_input != 0 and counter >= max_input`
CapReached(max_input, counter) == max_input # 0 /\ counter >= max_input

\* FinishComment with the cap test moved out of the for loop: it is made
\* only after the last item of a page.
FinishCommentCapAtPageEnd(s) ==
    LET info == ("replies" :> s.replies)
                @@ ("comment_sentiment_score_weighed" :>
                        s.comment_sentiment_score_weighed)
                @@ s.comment_info
        all == [s.comments_all EXCEPT
                  !.total_sentiment_score = @ + s.comment_sentiment_score,
                  !.total_sentiment_score_weighed =
                        @ + s.comment_sentiment_score_weighed,
                  !.comments = (s.counter :> info) @@ @]
        t == [s EXCEPT !.comments_all = all,
                       !.comment_info = EmptyDict,
                       !.replies = EmptyDict]
    IN  IF /\ s.item_i = Len(s.video_response.items)
           /\ CapReached(s.max_input, s.counter)
        THEN Done(t, "summary", all)
        ELSE NextItem([t EXCEPT !.counter = s.counter + 1])

\* FinishComment adding the comment's raw score to both totals.
FinishCommentRawInBothTotals(s) ==
    LET info == ("replies" :> s.replies)
                @@ ("comment_sentiment_score_weighed" :>
                        s.comment_sentiment_score_weighed)
                @@ s.comment_info
        all == [s.comments_all EXCEPT
                  !.total_sentiment_score = @ + s.comment_sentiment_score,
                  !.total_sentiment_score_weighed =
                        @ + s.comment_sentiment_score,
                  !.comments = (s.counter :> info) @@ @]
        t == [s EXCEPT !.comments_all = all,
                       !.comment_info = EmptyDict,
                       !.replies = EmptyDict]
    IN  IF CapReached(s.max_input, s.counter)
        THEN Done(t, "summary", all)
        ELSE NextItem([t EXCEPT !.counter = s.counter + 1])

\* After the reply loop: store the record, add to the totals, stop at the
\* cap or count on.
FinishComment(s) ==
    LET info == ("replies" :> s.replies)
                @@ ("comment_sentiment_score_weighed" :>
                        s.comment_sentiment_score_weighed)
                @@ s.comment_info
        all == [s.comments_all EXCEPT
                  !.total_sentiment_score = @ + s.comment_sentiment_score,
                  !.total_sentiment_score_weighed =
                        @ + s.comment_sentiment_score_weighed,
                  !.comments = (s.counter :> info) @@ @]
        t == [s EXCEPT !.comments_all = all,
                       !.comment_info = EmptyDict,
                       !.replies = EmptyDict]
    IN  IF CapReached(s.max_input, s.counter)
        THEN Done(t, "summary", all)
        ELSE NextItem([t EXCEPT !.counter = s.counter + 1])

\* Totals whose first test is `>= 0`: a zero score is counted twice.
UpdateTotalsZeroTwice(all, score) ==
    LET a == IF score >= 0
             THEN [all EXCEPT !.total_sentiment_label = @ + 1,
                              !.total_positive_com = @ + 1]
             ELSE all
        b == IF score < 0
             THEN [a EXCEPT !.total_sentiment_label = @ + 1,
                            !.total_negative_com = @ + 1]
             ELSE a
    IN  IF score = 0
        THEN [b EXCEPT !.total_neutral_com = @ + 1]
        ELSE b

\* The three ifs that update the video's totals from the comment's score.
UpdateTotals(all, score) ==
    LET a == IF score > 0
             THEN [all EXCEPT !.total_sentiment_label = @ + 1,
                              !.total_positive_com = @ + 1]
             ELSE all
        b == IF score < 0
             THEN [a EXCEPT !.total_sentiment_label = @ + 1,
                            !.total_negative_com = @ + 1]
             ELSE a
    IN  IF score = 0
        THEN [b EXCEPT !.total_neutral_com = @ + 1]
        ELSE b

\* OnComment with the counters chosen by the provider's label instead of
\* the score.
OnCommentByLabel(s, sentiment) ==
    IF sentiment.raised THEN Done(s, "ProviderError", EmptyDict)
    ELSE IF ~SentimentScore(s.model, sentiment).ok
    THEN Done(s, SentimentScore(s.model, sentiment).exc, EmptyDict)
    ELSE
    LET item == CurrentItem(s)
        score == SentimentScore(s.model, sentiment).v
        sign == IF sentiment.label = "positive" THEN 1
                ELSE IF sentiment.label = "negative" THEN -1 ELSE 0
        weighed == IF item.likeCount > 0 /\ s.like_input # 0
                   THEN score * item.likeCount * s.like_input
                   ELSE score
        t == [s EXCEPT
                !.comment_sentiment_score = score,
                !.comment_sentiment_score_weighed = weighed,
                !.comments_all = UpdateTotals(s.comments_all, sign),
                !.comment_info =
                    [comment |-> item.text,
                     comment_sentiment_label |-> sentiment.label,
                     comment_sentiment_score |-> score,
                     likeCount |-> item.likeCount,
                     totalReplyCount |-> item.totalReplyCount,
                     replyPos |-> 0,
                     replyNeg |-> 0,
                     replyNeu |-> 0]]
    IN  IF item.totalReplyCount > 0
        THEN IF item.replies = << >>
             THEN Done(t, "KeyError", EmptyDict)
             ELSE [t EXCEPT !.pc = "reply", !.reply_i = 1]
        ELSE FinishComment(t)

\* The provider has answered for the top-level comment of the current item.
OnComment(s, sentiment) ==
    IF sentiment.raised THEN Done(s, "ProviderError", EmptyDict)
    ELSE IF ~SentimentScore(s.model, sentiment).ok
    THEN Done(s, SentimentScore(s.model, sentiment).exc, EmptyDict)
    ELSE
    LET item == CurrentItem(s)
        score == SentimentScore(s.model, sentiment).v
        weighed == IF item.likeCount > 0 /\ s.like_input # 0
                   THEN score * item.likeCount * s.like_input
                   ELSE score
        t == [s EXCEPT
                !.comment_sentiment_score = score,
                !.comment_sentiment_score_weighed = weighed,
                !.comments_all = UpdateTotals(s.comments_all, score),
                !.comment_info =
                    [comment |-> item.text,
                     comment_sentiment_label |-> sentiment.label,
                     comment_sentiment_score |-> score,
                     likeCount |-> item.likeCount,
                     totalReplyCount |-> item.totalReplyCount,
                     replyPos |-> 0,
                     replyNeg |-> 0,
                     replyNeu |-> 0]]
    IN  IF item.totalReplyCount > 0
        THEN IF item.replies = << >>
             THEN Done(t, "KeyError", EmptyDict)
             ELSE [t EXCEPT !.pc = "reply", !.reply_i = 1]
        ELSE FinishComment(t)

\* The reply the reply loop is at.
CurrentReply(s) == CurrentItem(s).replies[s.reply_i]

\* A reply weighting that leaves the reply's likes out.
ReplyWeighedNoLikes(score, reply_likeCount, like_input, reply_input) ==
    IF reply_input # 0 THEN score * reply_input ELSE score

\* A reply weighting whose like multiplier does not wait for the test of
\* reply_input.
ReplyWeighedLikesAlways(score, reply_likeCount, like_input, reply_input) ==
    LET w == IF reply_input # 0 THEN score * reply_input ELSE score
    IN  IF reply_likeCount > 0 /\ like_input # 0
        THEN w * reply_likeCount * like_input
        ELSE w

\* The weighed score of a reply.
ReplyWeighed(score, reply_likeCount, like_input, reply_input) ==
    IF reply_input # 0
    THEN IF reply_likeCount > 0 /\ like_input # 0
         THEN score * reply_input * reply_likeCount * like_input
         ELSE score * reply_input
    ELSE score

\* A fold that adds the reply's weighed score under a negative comment too.
FoldedAlwaysAdds(comment_sentiment_score, comment_sentiment_score_weighed, reply_sentiment_score_weighed, reply_input) ==
    IF reply_input = 0 \/ comment_sentiment_score = 0
    THEN comment_sentiment_score_weighed
    ELSE comment_sentiment_score_weighed + reply_sentiment_score_weighed

\* A fold whose first test is `>= 0`: a neutral comment takes its replies
\* in as a positive one does.
FoldedNeutralAdds(comment_sentiment_score, comment_sentiment_score_weighed, reply_sentiment_score_weighed, reply_input) ==
    IF reply_input = 0 THEN comment_sentiment_score_weighed
    ELSE IF comment_sentiment_score >= 0
         THEN comment_sentiment_score_weighed + reply_sentiment_score_weighed
    ELSE comment_sentiment_score_weighed - reply_sentiment_score_weighed

\* The comment's running weighed score after a reply's weighed score is
\* folded in: inside `if reply_input != 0`, added under a positive comment,
\* subtracted under a negative one.
Folded(comment_sentiment_score, comment_sentiment_score_weighed, reply_sentiment_score_weighed, reply_input) ==
    IF reply_input = 0 THEN comment_sentiment_score_weighed
    ELSE IF comment_sentiment_score > 0
         THEN comment_sentiment_score_weighed + reply_sentiment_score_weighed
    ELSE IF comment_sentiment_score < 0
         THEN comment_sentiment_score_weighed - reply_sentiment_score_weighed
    ELSE comment_sentiment_score_weighed

\* OnReply writing the weighed score into the reply's raw score as well.
OnReplyStoresWeighed(s, sentiment) ==
    IF sentiment.raised THEN Done(s, "ProviderError", EmptyDict)
    ELSE IF ~SentimentScore(s.model, sentiment).ok
    THEN Done(s, SentimentScore(s.model, sentiment).exc, EmptyDict)
    ELSE
    LET reply == CurrentReply(s)
        score == SentimentScore(s.model, sentiment).v
        weighed == ReplyWeighed(score, reply.likeCount, s.like_input,
                                s.reply_input)
        folded == Folded(s.comment_sentiment_score,
                         s.comment_sentiment_score_weighed, weighed,
                         s.reply_input)
        reply_info == [reply |-> reply.text,
                       reply_sentiment_label |-> sentiment.label,
                       reply_sentiment_score |-> weighed,
                       reply_likeCount |-> reply.likeCount,
                       reply_sentiment_score_weighed |-> weighed]
        t == [s EXCEPT !.comment_sentiment_score_weighed = folded,
                       !.replies = (s.reply_i :> reply_info) @@ @]
    IN  IF s.reply_i < Len(CurrentItem(s).replies)
        THEN [t EXCEPT !.reply_i = s.reply_i + 1]
        ELSE FinishComment(t)

\* The provider has answered for the current reply.
OnReply(s, sentiment) ==
    IF sentiment.raised THEN Done(s, "ProviderError", EmptyDict)
    ELSE IF ~SentimentScore(s.model, sentiment).ok
    THEN Done(s, SentimentScore(s.model, sentiment).exc, EmptyDict)
    ELSE
    LET reply == CurrentReply(s)
        score == SentimentScore(s.model, sentiment).v
        weighed == ReplyWeighed(score, reply.likeCount, s.like_input,
                                s.reply_input)
        folded == Folded(s.comment_sentiment_score,
                         s.comment_sentiment_score_weighed, weighed,
                         s.reply_input)
        reply_info == [reply |-> reply.text,
                       reply_sentiment_label |-> sentiment.label,
                       reply_sentiment_score |-> score,
                       reply_likeCount |-> reply.likeCount,
                       reply_sentiment_score_weighed |-> weighed]
        t == [s EXCEPT !.comment_sentiment_score_weighed = folded,
                       !.replies = (s.reply_i :> reply_info) @@ @]
    IN  IF s.reply_i < Len(CurrentItem(s).replies)
        THEN [t EXCEPT !.reply_i = s.reply_i + 1]
        ELSE FinishComment(t)

\* ------------------------------------------- v6: the rollup of the labels

\* A label step in which a negative comment adds a point.
LabelStepAdds(total_sentiment_label, comment_sentiment_label) ==
    LET a == IF comment_sentiment_label = "positive"
             THEN total_sentiment_label + 1 ELSE total_sentiment_label
    IN  IF comment_sentiment_label = "negative" THEN a + 1 ELSE a

\* topCommentsOverallSentiment, loop body: positive is worth +1, negative -1.
LabelStep(total_sentiment_label, comment_sentiment_label) ==
    LET a == IF comment_sentiment_label = "positive"
             THEN total_sentiment_label + 1 ELSE total_sentiment_label
    IN  IF comment_sentiment_label = "negative" THEN a - 1 ELSE a

\* topCommentsOverallSentiment, after the loop: the three ifs on the total.
LabelValue(total_sentiment_label) ==
    LET a == IF total_sentiment_label > 0 THEN "Positive" ELSE "Neutral"
        b == IF total_sentiment_label < 0 THEN "Negative" ELSE a
    IN  IF total_sentiment_label = 0 THEN "Neutral" ELSE b

\* The v6 request before it is made.
V6Idle ==
    [pc |-> "idle", comments |-> << >>, key |-> 0,
     total_sentiment_label |-> 0, total_sentiment_score |-> 0,
     overall_sentiment |-> EmptyDict]

\* ------------------------------------------------------------------ state

VARIABLES
    frame,    \* frame[f]: the locals of the call of video_comments_* in frame f
    form,     \* form[r]: request.form of request r, and the model it picked
    served,   \* served[r]: the responses the comment source gave run r, in order
    calls,    \* calls[r]: the texts run r sent to its provider, in order
    v6        \* the v6 request: video_comments' result and the rollup's locals

vars == <<frame, form, served, calls, v6>>

\* Locals kept at module level: one set for all requests.
FrameShared(r) == 1

\* The activation frame that holds the locals of request r: every call of
\* video_comments_* has its own.
Frame(r) == r

NoForm == [text |-> "", likeInput |-> None, replyInput |-> None,
           maxInput |-> None, model |-> ""]

Init ==
    /\ frame = [r \in Runs |-> Idle]
    /\ form = [r \in Runs |-> NoForm]
    /\ served = [r \in Runs |-> << >>]
    /\ calls = [r \in Runs |-> << >>]
    /\ v6 = V6Idle

\* ------------------------------------------------- the comment source

Reply(text, likeCount) == [text |-> text, likeCount |-> likeCount]
Item(text, likeCount, totalReplyCount, replies) ==
    [text |-> text, likeCount |-> likeCount,
     totalReplyCount |-> totalReplyCount, replies |-> replies]

\* The comment threads a page may hold.  An item without the 'replies' key
\* has replies = <<>> (the API omits the key when it lists no reply).
Items ==
    { Item("good", 2, 0, << >>),
      Item("bad", 0, 1, << Reply("good", 1) >>),
      Item("err", 1, 2, << Reply("meh", 0), Reply("err", 3) >>),
      Item("meh", 0, 1, << >>) }

\* Sequences over S of length 0..n.
SeqUpTo(S, n) == UNION { [1..k -> S] : k \in 0..n }

\* The answers the source may give to the next fetch of a run that has been
\* answered `before`: an HTTP error, or a page.
Responses(before, items, maxTotal) ==
    LET had == Len(before)
        got == IF had = 0 THEN 0
               ELSE LET RECURSIVE Sum(_)
                        Sum(q) == IF q = << >> THEN 0
                                  ELSE Len(Head(q).items) + Sum(Tail(q))
                    IN Sum(before)
        room == IF maxTotal - got < MaxPageSize THEN maxTotal - got
                ELSE MaxPageSize
    IN  { [status |-> st, items |-> << >>, nextPageToken |-> FALSE] :
             st \in {404, 403, 500} }
        \cup
        { [status |-> 200, items |-> its, nextPageToken |-> nx] :
             its \in SeqUpTo(items, room),
             nx \in IF had + 1 < MaxPages THEN BOOLEAN ELSE {FALSE} }

\* ---------------------------------------------------------------- actions

Forms ==
    [text : {"vid"},
     likeInput : {BadStr, NumStr(-1), NumStr(0), NumStr(2)},
     replyInput : {None, NumStr(0), NumStr(1)},
     maxInput : {BadStr, NumStr(-1), NumStr(0), NumStr(1), NumStr(3)},
     model : {"watsonnlu", "openai"}]

\* A request whose call numbers its comments with a counter kept at module
\* level: it goes on from the highest counter any call has reached.
RequestGlobalCounter(r, forms) ==
    /\ frame[Frame(r)].pc = "idle"
    /\ form[r] = NoForm
    /\ \E f \in forms :
         LET s == Call(f.model, f)
             top == CHOOSE n \in {frame[k].counter : k \in DOMAIN frame} :
                       \A k \in DOMAIN frame : frame[k].counter <= n
         IN  /\ form' = [form EXCEPT ![r] = f]
             /\ frame' = [frame EXCEPT ![Frame(r)] =
                            IF s.pc = "fetch" /\ top > 1
                            THEN [s EXCEPT !.counter = top] ELSE s]
    /\ UNCHANGED <<served, calls, v6>>

\* index(), POST: reads the form and calls video_comments_watson or
\* video_comments_oa, which runs up to its first fetch.
Request(r, forms) ==
    /\ frame[Frame(r)].pc = "idle"
    /\ form[r] = NoForm
    /\ \E f \in forms :
         /\ form' = [form EXCEPT ![r] = f]
         /\ frame' = [frame EXCEPT ![Frame(r)] = Call(f.model, f)]
    /\ UNCHANGED <<served, calls, v6>>

\* A commentThreads().list().execute() of run r returns or raises HttpError.
FetchPage(r, items, maxTotal) ==
    /\ form[r] # NoForm
    /\ frame[Frame(r)].pc = "fetch"
    /\ \E resp \in Responses(served[r], items, maxTotal) :
         /\ served' = [served EXCEPT ![r] = Append(@, resp)]
         /\ frame' = [frame EXCEPT ![Frame(r)] = OnFetch(@, resp)]
    /\ UNCHANGED <<form, calls, v6>>

\* The provider call for the top-level comment of the current item.
AnalyzeComment(r) ==
    /\ form[r] # NoForm
    /\ frame[Frame(r)].pc = "comment"
    /\ LET s == frame[Frame(r)]
           text == CurrentItem(s).text
       IN  /\ calls' = [calls EXCEPT ![r] = Append(@, text)]
           /\ frame' = [frame EXCEPT
                          ![Frame(r)] = OnComment(s, Analyze(s.model, text))]
    /\ UNCHANGED <<form, served, v6>>

\* The provider call for the current reply.
AnalyzeReply(r) ==
    /\ form[r] # NoForm
    /\ frame[Frame(r)].pc = "reply"
    /\ LET s == frame[Frame(r)]
           text == CurrentReply(s).text
       IN  /\ calls' = [calls EXCEPT ![r] = Append(@, text)]
           /\ frame' = [frame EXCEPT
                          ![Frame(r)] = OnReply(s, Analyze(s.model, text))]
    /\ UNCHANGED <<form, served, v6>>

Next ==
    \/ Request(1, Forms)
    \/ FetchPage(1, Items, MaxTotal)
    \/ AnalyzeComment(1)
    \/ AnalyzeReply(1)

Spec == Init /\ [][Next]_vars

\* ------------------------------------------------ two requests at once

ConcForms ==
    { [text |-> "vidA", likeInput |-> NumStr(2), replyInput |-> NumStr(1),
       maxInput |-> NumStr(1), model |-> "watsonnlu"],
      [text |-> "vidB", likeInput |-> NumStr(0), replyInput |-> NumStr(1),
       maxInput |-> NumStr(0), model |-> "openai"] }

ConcItems ==
    { Item("good", 2, 0, << >>),
      Item("bad", 0, 1, << Reply("err", 1) >>) }

\* The requests are served by threads that take their steps in any order.
NextConc ==
    \E r \in Runs :
        \/ Request(r, ConcForms)
        \/ FetchPage(r, ConcItems, ConcMaxTotal)
        \/ AnalyzeComment(r)
        \/ AnalyzeReply(r)

SpecConc == Init /\ [][NextConc]_vars

\* The state a run is in when it has run alone from state s, been given the
\* responses `pages` and made `ncalls` provider calls.
RECURSIVE Replay(_, _, _)
Replay(s, pages, ncalls) ==
    IF s.pc = "fetch" /\ pages # << >>
    THEN Replay(OnFetch(s, Head(pages)), Tail(pages), ncalls)
    ELSE IF s.pc = "comment" /\ ncalls > 0
    THEN Replay(OnComment(s, Analyze(s.model, CurrentItem(s).text)),
                pages, ncalls - 1)
    ELSE IF s.pc = "reply" /\ ncalls > 0
    THEN Replay(OnReply(s, Analyze(s.model, CurrentReply(s).text)),
                pages, ncalls - 1)
    ELSE s

Alone(r) == Replay(Call(form[r].model, form[r]), served[r], Len(calls[r]))

\* ------------------------------------------- the weighting of one thread

\* Configurations with every combination of like and reply weight, without
\* a cap.
WForms ==
    [text : {"vid"},
     likeInput : {NumStr(0), NumStr(1), NumStr(2)},
     replyInput : {NumStr(0), NumStr(1), NumStr(2)},
     maxInput : {NumStr(0)},
     model : {"watsonnlu"}]

\* The replies a thread may carry: positive, negative and neutral ones, with
\* and without likes.
WReplies ==
    { Reply("fine", 0), Reply("nice", 5), Reply("bad", 0), Reply("bad", 5),
      Reply("meh", 5) }

\* The threads: every comment text and like count with every list of replies.
WItems ==
    { Item(text, likeCount, Len(replies), replies) :
        text \in {"good", "bad", "meh", "odd"},
        likeCount \in {0, 10},
        replies \in SeqUpTo(WReplies, MaxReplies) }

\* One request whose source holds a single thread.
NextW ==
    \/ Request(1, WForms)
    \/ FetchPage(1, WItems, 1)
    \/ AnalyzeComment(1)
    \/ AnalyzeReply(1)

SpecW == Init /\ [][NextW]_vars

\* ------------------------------------------- a request that is let run

\* Configurations without a cap and with caps 1 and 2, for either provider.
LForms ==
    [text : {"vid"},
     likeInput : {NumStr(2)},
     replyInput : {NumStr(1)},
     maxInput : {NumStr(0), NumStr(1), NumStr(2)},
     model : {"watsonnlu", "openai"}]

NextL ==
    \/ Request(1, LForms)
    \/ FetchPage(1, ConcItems, ConcMaxTotal)
    \/ AnalyzeComment(1)
    \/ AnalyzeReply(1)

\* One request, when every fetch and every provider call that has been made
\* returns or raises: a run that can take a step takes it.  The request
\* itself need not be made.
SpecL ==
    /\ Init
    /\ [][NextL]_vars
    /\ WF_vars(FetchPage(1, ConcItems, ConcMaxTotal))
    /\ WF_vars(AnalyzeComment(1))
    /\ WF_vars(AnalyzeReply(1))

\* ------------------------------- threads whose reply count is not exact

\* One configuration: both weights 1, no cap.
RForms ==
    [text : {"vid"},
     likeInput : {NumStr(1)},
     replyInput : {NumStr(1)},
     maxInput : {NumStr(0)},
     model : {"watsonnlu"}]

\* Threads whose snippet.totalReplyCount is 0, 1 or 3 whatever the number of
\* replies the thread carries in replies.comments.
RItems ==
    { Item(text, 0, totalReplyCount, replies) :
        text \in {"good", "bad"},
        totalReplyCount \in {0, 1, 3},
        replies \in SeqUpTo({Reply("fine", 0), Reply("meh", 5)}, MaxReplies) }

\* One request whose source holds up to two such threads.
NextR ==
    \/ Request(1, RForms)
    \/ FetchPage(1, RItems, 2)
    \/ AnalyzeComment(1)
    \/ AnalyzeReply(1)

SpecR == Init /\ [][NextR]_vars

\* ------------------------------------------------------ the v6 request

\* The records v6's video_comments builds: label and score of each comment
\* as analyze_review_sentiments gives them.
V6Records ==
    { [comment_sentiment_label |-> analyze_review_sentiments(t).label,
       comment_sentiment_score |-> analyze_review_sentiments(t).score] :
        t \in Texts }

\* v3 index(): video_comments(video_id) returns its dict of records, or one
\* of the two error strings; only a dict is given to
\* topCommentsOverallSentiment.
V6Request ==
    /\ v6.pc = "idle"
    /\ \/ \E cs \in SeqUpTo(V6Records, MaxV6) :
            v6' = [V6Idle EXCEPT !.pc = "loop", !.comments = cs]
       \/ v6' = [V6Idle EXCEPT !.pc = "done"]
    /\ UNCHANGED <<frame, form, served, calls>>

\* topCommentsOverallSentiment: one turn of the loop over the records.
V6Loop ==
    /\ v6.pc = "loop"
    /\ v6.key < Len(v6.comments)
    /\ LET value == v6.comments[v6.key + 1] IN
       v6' = [v6 EXCEPT
                !.key = @ + 1,
                !.total_sentiment_label =
                    LabelStep(@, value.comment_sentiment_label),
                !.total_sentiment_score = @ + value.comment_sentiment_score]
    /\ UNCHANGED <<frame, form, served, calls>>

\* topCommentsOverallSentiment: the label of the total, and the return.
V6Return ==
    /\ v6.pc = "loop"
    /\ v6.key = Len(v6.comments)
    /\ v6' = [v6 EXCEPT
                !.pc = "done",
                !.overall_sentiment =
                    [label |-> LabelValue(v6.total_sentiment_label),
                     label_total |-> v6.total_sentiment_label,
                     score |-> v6.total_sentiment_score]]
    /\ UNCHANGED <<frame, form, served, calls>>

NextV6 == V6Request \/ V6Loop \/ V6Return

SpecV6 == Init /\ [][NextV6]_vars

\* ------------------------------------------------------------- properties

\* The locals of request r.
Locals(r) == frame[Frame(r)]

\* The call of request r has set up its locals (counter starts at 1).
Started(r) == Locals(r).counter > 0

\* The number of CommentRecords of a comments_all dict.
NumRecords(all) == Cardinality(DOMAIN all.comments)

\* The run of request r has returned a VideoSummary.
ReturnedSummary(r) == Locals(r).result.kind = "summary"

\* likeWeight, replyWeight and maxComments are numerals that are not negative.
ValidForm(f) ==
    \A x \in {f.likeInput, f.replyInput, f.maxInput} : x.num /\ x.v >= 0

\* C1: with a cap (maxComments a positive whole number), a returned summary
\* holds at least 0 and at most maxComments CommentRecords.
C1_CountWithinCap ==
    \A r \in Runs :
        (ReturnedSummary(r) /\ Locals(r).max_input > 0)
        => /\ 0 <= NumRecords(Locals(r).result.value)
           /\ NumRecords(Locals(r).result.value) <= Locals(r).max_input

\* C1 witness: a run capped at 1 returned one record while its page still
\* held a later item.
C1_Witness ==
    \E r \in Runs :
        /\ ReturnedSummary(r)
        /\ Locals(r).max_input = 1
        /\ NumRecords(Locals(r).result.value) = 1
        /\ Locals(r).item_i < Len(Locals(r).video_response.items)

\* The cap of request r has been reached: as many records are stored as
\* maxComments allows.
CapHit(r) ==
    /\ Started(r)
    /\ Locals(r).max_input > 0
    /\ NumRecords(Locals(r).comments_all) >= Locals(r).max_input

\* The run of request r has returned its summary with exactly maxComments
\* records, the last of them holding every reply of its item.
StoppedAtCap(r) ==
    LET s == Locals(r)
        item == CurrentItem(s)
    IN  /\ s.pc = "done"
        /\ s.result = Returns("summary", s.comments_all)
        /\ NumRecords(s.comments_all) = s.max_input
        /\ DOMAIN s.comments_all.comments[s.max_input].replies
             = 1..(IF item.totalReplyCount > 0 THEN Len(item.replies) ELSE 0)

\* C2: as soon as the record that reaches the cap is stored (with all its
\* replies) the run is DONE with its summary, and from then on it processes
\* no item, calls no provider and requests no page, also when the page it
\* stopped on carries a next page token.
C2_CapStopsRun ==
    /\ [](\A r \in Runs : CapHit(r) => StoppedAtCap(r))
    /\ [][\A r \in Runs :
            CapHit(r) => /\ frame'[Frame(r)] = frame[Frame(r)]
                         /\ served'[r] = served[r]
                         /\ calls'[r] = calls[r]]_vars

\* C2 witness: maxComments = 3 is reached on the last item of a first page
\* of 3 items that carries a next page token; 3 records are returned and
\* only one page was requested.
C2_Witness ==
    \E r \in Runs :
        /\ CapHit(r)
        /\ Locals(r).max_input = 3
        /\ NumRecords(Locals(r).result.value) = 3
        /\ Len(served[r]) = 1
        /\ Len(served[r][1].items) = 3
        /\ served[r][1].nextPageToken

\* A stored comment or reply whose text the provider fails on carries
\* neutral / 0.
FailuresAreNeutral(all) ==
    \A k \in DOMAIN all.comments :
        LET c == all.comments[k] IN
        /\ ~Backend(c.comment).ok
             => (c.comment_sentiment_label = "neutral"
                 /\ c.comment_sentiment_score = 0)
        /\ \A j \in DOMAIN c.replies :
             ~Backend(c.replies[j].reply).ok
             => (c.replies[j].reply_sentiment_label = "neutral"
                 /\ c.replies[j].reply_sentiment_score = 0)

\* C3: with either provider, a failing provider call never leaves a run
\* (of a valid configuration): no run ends with the provider's exception,
\* and every text the provider failed on is recorded as neutral / 0.
C3_ProviderFailureContained ==
    \A r \in Runs :
        (form[r] # NoForm /\ ValidForm(form[r]))
        => /\ Locals(r).result.kind # "ProviderError"
           /\ Started(r) => FailuresAreNeutral(Locals(r).comments_all)

\* C4: a run started with a valid configuration ends with a VideoSummary,
\* INVALID_ID or COMMENTS_DISABLED, whatever the source does.
C4_RunReturnsSummaryOrError ==
    \A r \in Runs :
        (form[r] # NoForm /\ ValidForm(form[r]) /\ Locals(r).pc = "done")
        => Locals(r).result.kind
             \in {"summary", "INVALID ID", "COMMENTS DISABLED"}

\* C5: a first page fetch that fails with 404 ends the run with INVALID ID,
\* one that fails with 403 with COMMENTS DISABLED; no summary is returned,
\* no provider call was made and no other page was requested.
C5_FirstFetchError ==
    \A r \in Runs :
        (served[r] # << >> /\ served[r][1].status \in {404, 403})
        => /\ Locals(r).pc = "done"
           /\ Locals(r).result =
                Returns(IF served[r][1].status = 404 THEN "INVALID ID"
                        ELSE "COMMENTS DISABLED", EmptyDict)
           /\ calls[r] = << >>
           /\ Len(served[r]) = 1

\* C5 witness: the first fetch of a run failed with 403 and the run
\* returned COMMENTS DISABLED.
C5_Witness ==
    \E r \in Runs :
        /\ served[r] # << >>
        /\ served[r][1].status = 403
        /\ Locals(r).result.kind = "COMMENTS DISABLED"

\* C6: in every returned summary the three counters add up to the number of
\* CommentRecords.
C6_CountsSumToRecords ==
    \A r \in Runs :
        ReturnedSummary(r)
        => LET all == Locals(r).result.value IN
           all.total_positive_com + all.total_negative_com
             + all.total_neutral_com = NumRecords(all)

\* C6 witness: a summary returned at source exhaustion that counts a
\* positive, a negative and a neutral comment.
C6_Witness ==
    \E r \in Runs :
        /\ ReturnedSummary(r)
        /\ Locals(r).max_input = 0
        /\ Locals(r).result.value.total_positive_com > 0
        /\ Locals(r).result.value.total_negative_com > 0
        /\ Locals(r).result.value.total_neutral_com > 0

\* C7: in every summary returned by a run (of a valid configuration)
\* total_sentiment_label is positiveCount minus negativeCount.
C7_NetLabelIsPosMinusNeg ==
    \A r \in Runs :
        (ReturnedSummary(r) /\ ValidForm(form[r]))
        => LET all == Locals(r).result.value IN
           all.total_sentiment_label
             = all.total_positive_com - all.total_negative_com

\* The number of records of the v6 request that carry the label.
V6Count(label) ==
    Cardinality({k \in 1..Len(v6.comments) :
                    v6.comments[k].comment_sentiment_label = label})

C9_InvalidConfigurationRejected ==
    \A r \in Runs :
        (form[r] # NoForm /\ ~ValidForm(form[r]))
        => /\ Locals(r).pc = "done"
           /\ Locals(r).result.kind \in {"ValueError", "TypeError"}
           /\ served[r] = << >>
           /\ calls[r] = << >>

\* C10: whatever the order in which two concurrent requests take their
\* steps, each is at every moment in the state, and ends with the result,
\* it has when it runs alone on the same responses; a request that has not
\* been made has no state.
C10_RunsIndependent ==
    \A r \in Runs :
        IF form[r] = NoForm THEN Locals(r) = Idle
        ELSE Locals(r) = Alone(r)

\* C10 witness: one request has returned a summary with a record while the
\* other, with another configuration and a record stored, is in its reply
\* loop.
C10_Witness ==
    \E r, q \in Runs :
        /\ r # q
        /\ ReturnedSummary(r)
        /\ NumRecords(Locals(r).result.value) > 0
        /\ form[q] # NoForm
        /\ form[q] # form[r]
        /\ Locals(q).pc = "reply"
        /\ NumRecords(Locals(q).comments_all) > 0

\* C11: two requests with the same configuration that have been given the
\* same responses by the source and have made as many provider calls are in
\* the same state, have sent the provider the same texts and, when they
\* have returned, hold the same result, whichever of them ran first.
C11_SameInputsSameResult ==
    \A r, q \in Runs :
        (/\ form[r] # NoForm
         /\ form[q] = form[r]
         /\ served[q] = served[r]
         /\ Len(calls[q]) = Len(calls[r]))
        => /\ Locals(q) = Locals(r)
           /\ calls[q] = calls[r]

\* C11 witness: two requests with the same configuration and the same
\* responses have both returned a summary that holds a record with a reply.
C11_Witness ==
    \E r, q \in Runs :
        /\ r # q
        /\ form[r] # NoForm
        /\ form[q] = form[r]
        /\ served[q] = served[r]
        /\ ReturnedSummary(r)
        /\ ReturnedSummary(q)
        /\ Locals(q).result = Locals(r).result
        /\ \E k \in DOMAIN Locals(r).result.value.comments :
              Locals(r).result.value.comments[k].replies # EmptyDict

\* The CommentRecords request r has stored so far.
Records(r) == Locals(r).comments_all.comments

\* The like-weighted score of a stored comment, from its stored raw score
\* and like count.
CommentBase(rec, like_input) ==
    IF rec.likeCount > 0 /\ like_input # 0
    THEN rec.comment_sentiment_score * rec.likeCount * like_input
    ELSE rec.comment_sentiment_score

\* C12: with replyWeight 0 every stored reply's weighted score is its raw
\* score, and every stored comment's weighted score is its like-weighted
\* score alone, whatever replies it has.
C12_ZeroReplyWeightIgnoresReplies ==
    \A r \in Runs :
        (Started(r) /\ Locals(r).reply_input = 0)
        => /\ \A j \in DOMAIN Locals(r).replies :
                 Locals(r).replies[j].reply_sentiment_score_weighed
                    = Locals(r).replies[j].reply_sentiment_score
           /\ \A k \in DOMAIN Records(r) :
                 /\ \A j \in DOMAIN Records(r)[k].replies :
                       Records(r)[k].replies[j].reply_sentiment_score_weighed
                          = Records(r)[k].replies[j].reply_sentiment_score
                 /\ Records(r)[k].comment_sentiment_score_weighed
                       = CommentBase(Records(r)[k], Locals(r).like_input)

\* C12 witness: with replyWeight 0 and likeWeight 2, a comment of score 0.5
\* with 10 likes and two liked replies, one scored 0.4 and one -0.3, is
\* stored with weighted score 10.0.
C12_Witness ==
    \E r \in Runs :
        /\ ReturnedSummary(r)
        /\ Locals(r).reply_input = 0
        /\ Locals(r).like_input = 2
        /\ \E k \in DOMAIN Records(r) :
              LET rec == Records(r)[k]
              IN  /\ rec.comment_sentiment_score = 5
                  /\ rec.likeCount = 10
                  /\ rec.comment_sentiment_score_weighed = 100
                  /\ DOMAIN rec.replies = {1, 2}
                  /\ rec.replies[1].reply_sentiment_score = 4
                  /\ rec.replies[1].reply_likeCount = 5
                  /\ rec.replies[2].reply_sentiment_score = -3
                  /\ rec.replies[2].reply_likeCount = 5

\* The sum of the stored weighted scores of a record's replies.
SumReplyWeighed(replies) ==
    LET RECURSIVE Sum(_)
        Sum(n) == IF n = 0 THEN 0
                  ELSE replies[n].reply_sentiment_score_weighed + Sum(n - 1)
    IN  Sum(Cardinality(DOMAIN replies))

\* C13: a stored comment's weighted score is its like-weighted score plus
\* the fold of its replies: with replyWeight 0 nothing, otherwise the sum
\* of the replies' weighted scores under a positive comment, minus that sum
\* under a negative comment, nothing under a comment of score 0.
C13_WeightedIsBasePlusFold ==
    \A r \in Runs :
        Started(r)
        => \A k \in DOMAIN Records(r) :
             LET rec == Records(r)[k]
                 sum == SumReplyWeighed(rec.replies)
                 fold == IF Locals(r).reply_input = 0 THEN 0
                         ELSE IF rec.comment_sentiment_score > 0 THEN sum
                         ELSE IF rec.comment_sentiment_score < 0 THEN 0 - sum
                         ELSE 0
             IN  rec.comment_sentiment_score_weighed
                    = CommentBase(rec, Locals(r).like_input) + fold

\* C13 witness: with likeWeight 1 and replyWeight 1, a comment of score
\* -0.3 without likes and with one reply of score 0.4 and 5 likes (weighted
\* 2.0) is stored with weighted score -2.3.
C13_Witness ==
    \E r \in Runs :
        /\ ReturnedSummary(r)
        /\ Locals(r).like_input = 1
        /\ Locals(r).reply_input = 1
        /\ \E k \in DOMAIN Records(r) :
              LET rec == Records(r)[k]
              IN  /\ rec.comment_sentiment_score = -3
                  /\ rec.likeCount = 0
                  /\ DOMAIN rec.replies = {1}
                  /\ rec.replies[1].reply_sentiment_score = 4
                  /\ rec.replies[1].reply_sentiment_score_weighed = 20
                  /\ rec.comment_sentiment_score_weighed = -23

\* The run of request r has ended with a return statement or by falling
\* off the end of the function, not with an exception.
Returned(r) ==
    /\ Locals(r).pc = "done"
    /\ Locals(r).result.kind
         \in {"summary", "INVALID ID", "COMMENTS DISABLED", "None"}

\* The number of items on the pages.
RECURSIVE TotalItems(_)
TotalItems(pages) ==
    IF pages = << >> THEN 0
    ELSE Len(Head(pages).items) + TotalItems(Tail(pages))

\* C14: without a cap (maxComments 0), a run none of whose fetches failed
\* returns only its summary, only after a page without nextPageToken, and
\* the summary holds as many records as the pages served hold items: every
\* page of the chain was requested and every item of every page processed.
C14_NoCapReadsWholeChain ==
    \A r \in Runs :
        (/\ Returned(r)
         /\ Locals(r).max_input = 0
         /\ \A i \in 1..Len(served[r]) : served[r][i].status = 200)
        => /\ ReturnedSummary(r)
           /\ served[r] # << >>
           /\ ~served[r][Len(served[r])].nextPageToken
           /\ \A i \in 1..(Len(served[r]) - 1) : served[r][i].nextPageToken
           /\ NumRecords(Locals(r).result.value) = TotalItems(served[r])

\* C14 witness: a run without a cap returned a summary of three or more
\* records read from two pages that both hold items.
C14_Witness ==
    \E r \in Runs :
        /\ ReturnedSummary(r)
        /\ Locals(r).max_input = 0
        /\ Len(served[r]) = 2
        /\ served[r][1].nextPageToken
        /\ Len(served[r][1].items) > 0
        /\ Len(served[r][2].items) > 0
        /\ NumRecords(Locals(r).result.value) >= 3
        /\ NumRecords(Locals(r).result.value) = TotalItems(served[r])

\* The weighted score a stored reply must carry, from its stored raw score
\* and like count.
ReplyExpected(rep, like_input, reply_input) ==
    IF reply_input = 0 THEN rep.reply_sentiment_score
    ELSE IF rep.reply_likeCount > 0 /\ like_input # 0
         THEN rep.reply_sentiment_score * reply_input
                * rep.reply_likeCount * like_input
    ELSE rep.reply_sentiment_score * reply_input

\* What the stored replies have contributed to a comment of the given raw
\* score.
FoldOf(score, replies, reply_input) ==
    IF reply_input = 0 \/ score = 0 THEN 0
    ELSE IF score > 0 THEN SumReplyWeighed(replies)
    ELSE 0 - SumReplyWeighed(replies)

\* C15: every stored reply's weighted score is score * replyWeight *
\* likeCount * likeWeight when replyWeight is not 0, the reply has likes and
\* likeWeight is not 0, score * replyWeight when replyWeight is not 0
\* otherwise, and the raw score when replyWeight is 0; and the value stored
\* with a reply is the value folded into its comment: during the reply loop
\* and in the stored record, the comment's weighted score is its
\* like-weighted score plus or minus the stored values of its replies.
C15_ReplyWeightedStoredAsFolded ==
    \A r \in Runs :
        Started(r)
        => LET s == Locals(r)
           IN  /\ \A j \in DOMAIN s.replies :
                     s.replies[j].reply_sentiment_score_weighed
                        = ReplyExpected(s.replies[j], s.like_input,
                                        s.reply_input)
               /\ s.pc = "reply"
                    => s.comment_sentiment_score_weighed
                         = CommentBase(s.comment_info, s.like_input)
                           + FoldOf(s.comment_sentiment_score, s.replies,
                                    s.reply_input)
               /\ \A k \in DOMAIN Records(r) :
                     /\ \A j \in DOMAIN Records(r)[k].replies :
                           Records(r)[k].replies[j]
                                .reply_sentiment_score_weighed
                              = ReplyExpected(Records(r)[k].replies[j],
                                              s.like_input, s.reply_input)
                     /\ Records(r)[k].comment_sentiment_score_weighed
                           = CommentBase(Records(r)[k], s.like_input)
                             + FoldOf(Records(r)[k].comment_sentiment_score,
                                      Records(r)[k].replies, s.reply_input)

\* C15 witness: with likeWeight 2 and replyWeight 2 the reply loop is at
\* the second reply of a comment of score 0.5; the first reply, of score
\* 0.4 with 5 likes, is stored with weighted score 8.0 and the comment's
\* running weighted score is 8.5.
C15_Witness ==
    \E r \in Runs :
        LET s == Locals(r)
        IN  /\ s.pc = "reply"
            /\ s.reply_i = 2
            /\ s.like_input = 2
            /\ s.reply_input = 2
            /\ s.comment_sentiment_score = 5
            /\ s.comment_info.likeCount = 0
            /\ s.replies[1].reply_sentiment_score = 4
            /\ s.replies[1].reply_likeCount = 5
            /\ s.replies[1].reply_sentiment_score_weighed = 80
            /\ s.comment_sentiment_score_weighed = 85

\* A step of request r folds a reply into a comment of negative raw score
\* with replyWeight not 0.
FoldsUnderNegative(r) ==
    /\ Locals(r).pc = "reply"
    /\ calls'[r] # calls[r]
    /\ Locals(r).comment_sentiment_score < 0
    /\ Locals(r).reply_input # 0

\* The reply record that step has stored: in the reply loop's dict, or, after
\* the last reply, in the comment's record.
StoredByStep(r) ==
    IF frame'[Frame(r)].pc = "reply"
    THEN frame'[Frame(r)].replies[Locals(r).reply_i]
    ELSE frame'[Frame(r)].comments_all.comments[Locals(r).counter]
            .replies[Locals(r).reply_i]

\* C16 as stated: no reply folded into a comment of negative raw score (with
\* replyWeight not 0) leaves the comment's running weighted score greater
\* than it was, whatever the sign of the reply's score.
C16_NegativeCommentNeverRises ==
    [][\A r \in Runs :
         FoldsUnderNegative(r)
         => frame'[Frame(r)].comment_sentiment_score_weighed
              <= Locals(r).comment_sentiment_score_weighed]_vars

\* C16 amended: folding a reply into a comment of negative raw score (with
\* replyWeight not 0) subtracts the reply's stored weighted score from the
\* comment's running weighted score; the running score is not greater than
\* before exactly when the reply's weighted score is not negative, and a
\* reply of negative score raises it.
C16_NegativeCommentSubtractsReply ==
    [][\A r \in Runs :
         FoldsUnderNegative(r)
         => LET before == Locals(r).comment_sentiment_score_weighed
                after == frame'[Frame(r)].comment_sentiment_score_weighed
                rep == StoredByStep(r)
            IN  /\ after = before - rep.reply_sentiment_score_weighed
                /\ after <= before
                     <=> rep.reply_sentiment_score_weighed >= 0
                /\ rep.reply_sentiment_score < 0 => after > before]_vars

\* C16 witness: with likeWeight 1 and replyWeight 1 a comment of score -0.3
\* without likes has had its first reply, of score -0.3 with 5 likes
\* (weighted -1.5), folded in: its running weighted score has risen to 1.2.
C16_Witness ==
    \E r \in Runs :
        LET s == Locals(r)
        IN  /\ s.pc = "reply"
            /\ s.reply_i = 2
            /\ s.like_input = 1
            /\ s.reply_input = 1
            /\ s.comment_sentiment_score = -3
            /\ s.comment_info.likeCount = 0
            /\ s.replies[1].reply_sentiment_score = -3
            /\ s.replies[1].reply_sentiment_score_weighed = -15
            /\ s.comment_sentiment_score_weighed = 12

\* The items of the pages, in page order.
RECURSIVE AllItems(_)
AllItems(pages) ==
    IF pages = << >> THEN << >>
    ELSE Head(pages).items \o AllItems(Tail(pages))

\* C17: at every moment of a run the keys of its comments mapping are
\* exactly 1..n for the n records stored, on one page or across pages;
\* the record under key k is the k-th comment of the pages in page order;
\* and while the run goes on the next key is n + 1.
C17_KeysAreOneToN ==
    \A r \in Runs :
        Started(r)
        => LET n == NumRecords(Locals(r).comments_all)
               yielded == AllItems(served[r])
           IN  /\ DOMAIN Records(r) = 1..n
               /\ n <= Len(yielded)
               /\ \A k \in 1..n :
                     /\ Records(r)[k].comment = yielded[k].text
                     /\ Records(r)[k].likeCount = yielded[k].likeCount
                     /\ Records(r)[k].totalReplyCount
                           = yielded[k].totalReplyCount
               /\ Locals(r).pc \in {"fetch", "comment", "reply"}
                    => Locals(r).counter = n + 1

\* C17 witness: a summary whose records 1 and 2 come from the first page
\* and whose record 3, a different comment, comes from the second page.
C17_Witness ==
    \E r \in Runs :
        /\ ReturnedSummary(r)
        /\ Len(served[r]) = 2
        /\ Len(served[r][1].items) = 2
        /\ Len(served[r][2].items) >= 1
        /\ DOMAIN Locals(r).result.value.comments
             = 1..(2 + Len(served[r][2].items))
        /\ Locals(r).result.value.comments[3].comment
             = served[r][2].items[1].text
        /\ Locals(r).result.value.comments[3].comment
             # Locals(r).result.value.comments[1].comment

\* The sum of a field over the records stored under keys 1..n.
RECURSIVE SumField(_, _, _)
SumField(comments, field, n) ==
    IF n = 0 THEN 0
    ELSE comments[n][field] + SumField(comments, field, n - 1)

\* C18: at every moment of a run total_sentiment_score is the sum of the
\* raw scores of the records stored and total_sentiment_score_weighed is
\* the sum of their weighted scores.
C18_TotalsAreSums ==
    \A r \in Runs :
        Started(r)
        => LET all == Locals(r).comments_all
               n == NumRecords(all)
           IN  /\ all.total_sentiment_score
                    = SumField(all.comments, "comment_sentiment_score", n)
               /\ all.total_sentiment_score_weighed
                    = SumField(all.comments,
                               "comment_sentiment_score_weighed", n)

\* C18 witness: a summary of two or more records, one of them with replies,
\* whose raw total is not 0 and differs from its weighted total.
C18_Witness ==
    \E r \in Runs :
        /\ ReturnedSummary(r)
        /\ NumRecords(Locals(r).result.value) >= 2
        /\ \E k \in DOMAIN Locals(r).result.value.comments :
              Locals(r).result.value.comments[k].replies # EmptyDict
        /\ Locals(r).result.value.total_sentiment_score # 0
        /\ Locals(r).result.value.total_sentiment_score_weighed
             # Locals(r).result.value.total_sentiment_score

\* 1 when the condition holds, else 0.
Count(b) == IF b THEN 1 ELSE 0

\* C19: the step that processes a comment (the provider has answered for
\* it) adds 1 to exactly one of
\* total_positive_com, total_negative_com and total_neutral_com, the one
\* named by the sign of the comment's raw score, whatever its label.
C19_OneCounterBySign ==
    [][\A r \in Runs :
         (/\ Locals(r).pc = "comment"
          /\ calls'[r] # calls[r]
          /\ frame'[Frame(r)].result.kind # "ProviderError")
         => LET old == Locals(r).comments_all
                new == frame'[Frame(r)].comments_all
                score == frame'[Frame(r)].comment_sentiment_score
            IN  /\ new.total_positive_com
                     = old.total_positive_com + Count(score > 0)
                /\ new.total_negative_com
                     = old.total_negative_com + Count(score < 0)
                /\ new.total_neutral_com
                     = old.total_neutral_com + Count(score = 0)
                /\ (new.total_positive_com + new.total_negative_com
                        + new.total_neutral_com)
                     = (old.total_positive_com + old.total_negative_com
                        + old.total_neutral_com) + 1]_vars

\* C19 witness: a comment labelled positive with raw score -0.2 has been
\* counted as negative and as nothing else.
C19_Witness ==
    \E r \in Runs :
        /\ ReturnedSummary(r)
        /\ DOMAIN Records(r) = {1}
        /\ Records(r)[1].comment_sentiment_label = "positive"
        /\ Records(r)[1].comment_sentiment_score = -2
        /\ Locals(r).result.value.total_negative_com = 1
        /\ Locals(r).result.value.total_positive_com = 0
        /\ Locals(r).result.value.total_neutral_com = 0

\* The stored reply is the given reply of the source with the label and
\* score the provider returns for its text.
ReplyAsGiven(model, stored, reply) ==
    LET answer == Analyze(model, reply.text)
    IN  /\ stored.reply = reply.text
        /\ stored.reply_likeCount = reply.likeCount
        /\ stored.reply_sentiment_label = answer.label
        /\ stored.reply_sentiment_score = SentimentScore(model, answer).v

\* The stored comment fields are those of the given item of the source with
\* the label and score the provider returns for its text.
CommentAsGiven(model, stored, item) ==
    LET answer == Analyze(model, item.text)
    IN  /\ stored.comment = item.text
        /\ stored.likeCount = item.likeCount
        /\ stored.totalReplyCount = item.totalReplyCount
        /\ stored.comment_sentiment_label = answer.label
        /\ stored.comment_sentiment_score = SentimentScore(model, answer).v

\* C20: whatever the weights, every stored comment carries the raw score
\* and label the provider returned for it and the like and reply counts of
\* its item, and every stored reply carries the raw score and label the
\* provider returned for it and its like count, during the reply loop and
\* in the stored records.
C20_RawValuesStoredUnchanged ==
    \A r \in Runs :
        Started(r)
        => LET s == Locals(r)
               yielded == AllItems(served[r])
           IN  /\ s.pc = "reply"
                    => /\ CommentAsGiven(s.model, s.comment_info,
                                         CurrentItem(s))
                       /\ \A j \in DOMAIN s.replies :
                             ReplyAsGiven(s.model, s.replies[j],
                                          CurrentItem(s).replies[j])
               /\ \A k \in DOMAIN Records(r) :
                     /\ CommentAsGiven(s.model, Records(r)[k], yielded[k])
                     /\ \A j \in DOMAIN Records(r)[k].replies :
                           ReplyAsGiven(s.model, Records(r)[k].replies[j],
                                        yielded[k].replies[j])

\* C20 witness: with likeWeight 2 and replyWeight 2 a comment of score 0.5
\* with 10 likes and a reply of score 0.4 with 5 likes is stored with those
\* raw scores next to weighted scores 8.0 for the reply and 18.0 for the
\* comment.
C20_Witness ==
    \E r \in Runs :
        /\ ReturnedSummary(r)
        /\ Locals(r).like_input = 2
        /\ Locals(r).reply_input = 2
        /\ \E k \in DOMAIN Records(r) :
              LET rec == Records(r)[k]
              IN  /\ rec.comment_sentiment_score = 5
                  /\ rec.likeCount = 10
                  /\ rec.totalReplyCount = 1
                  /\ rec.comment_sentiment_score_weighed = 180
                  /\ rec.replies[1].reply_sentiment_score = 4
                  /\ rec.replies[1].reply_likeCount = 5
                  /\ rec.replies[1].reply_sentiment_score_weighed = 80

\* The stored reply list is the item's replies sequence: one record per
\* reply, in order, with the reply's text and like count.
RepliesAsGiven(stored, item) ==
    /\ DOMAIN stored = 1..Len(item.replies)
    /\ \A j \in DOMAIN stored :
          j \in 1..Len(item.replies)
          => /\ stored[j].reply = item.replies[j].text
             /\ stored[j].reply_likeCount = item.replies[j].likeCount

\* C21: the reply list of every stored comment holds exactly one record per
\* reply of that comment's replies sequence, in the order of the source,
\* whatever its totalReplyCount.
C21_ReplyListMatchesSource ==
    \A r \in Runs :
        Started(r)
        => \A k \in DOMAIN Records(r) :
             RepliesAsGiven(Records(r)[k].replies, AllItems(served[r])[k])

\* A fetch of request r after its first page has failed with 404 or 403.
LaterFetchFailed(r) ==
    \E i \in 2..Len(served[r]) : served[r][i].status \in {404, 403}

\* C22: when a fetch after the first page fails with 404 or 403, that
\* fetch is the run's last, the run is done and has returned "INVALID ID"
\* (404) or "COMMENTS DISABLED" (403) and not the records built from the
\* earlier pages; from then on no page is requested, no provider is called
\* and nothing of the run changes.
C22_LaterFetchFailureIsFatal ==
    /\ [](\A r \in Runs :
            LaterFetchFailed(r)
            => LET last == served[r][Len(served[r])]
               IN  /\ \A i \in 1..(Len(served[r]) - 1) :
                         served[r][i].status = 200
                   /\ Locals(r).pc = "done"
                   /\ Locals(r).result
                        = Returns(IF last.status = 404 THEN "INVALID ID"
                                  ELSE "COMMENTS DISABLED", EmptyDict))
    /\ [][\A r \in Runs :
            LaterFetchFailed(r)
            => /\ frame'[Frame(r)] = frame[Frame(r)]
               /\ served'[r] = served[r]
               /\ calls'[r] = calls[r]]_vars

\* C22 witness: the first page gave the run two records, the fetch of the
\* second page failed with 403 and the run returned "COMMENTS DISABLED".
C22_Witness ==
    \E r \in Runs :
        /\ Len(served[r]) = 2
        /\ served[r][2].status = 403
        /\ NumRecords(Locals(r).comments_all) = 2
        /\ Locals(r).pc = "done"
        /\ Locals(r).result.kind = "COMMENTS DISABLED"

\* The run of request r is over: it has returned, or an exception has left
\* it.
Ended(r) == Locals(r).pc = "done"

\* C23: when fetches and provider calls come back, every request that has
\* been made ends (the source's chain of pages is finite, or the cap stops
\* the run before the chain ends); and a run that has ended stays as it is:
\* no page is fetched, no provider is called, and its locals and result do
\* not change.
C23_RunsEndAndStayEnded ==
    /\ \A r \in Runs : (form[r] # NoForm) ~> Ended(r)
    /\ [][\A r \in Runs :
            Ended(r) => /\ frame'[Frame(r)] = frame[Frame(r)]
                        /\ served'[r] = served[r]
                        /\ calls'[r] = calls[r]
                        /\ form'[r] = form[r]]_vars

\* C23 witness: a run capped at 1 has returned its summary of one record
\* although the page it read holds a second item and a nextPageToken.
C23_Witness ==
    \E r \in Runs :
        /\ ReturnedSummary(r)
        /\ Locals(r).max_input = 1
        /\ NumRecords(Locals(r).result.value) = 1
        /\ Len(served[r]) = 1
        /\ Len(served[r][1].items) = 2
        /\ served[r][1].nextPageToken

\* The texts of a sequence of replies, in order.
ReplyTexts(replies) == [j \in 1..Len(replies) |-> replies[j].text]

\* The provider calls the items ask for: for each item in order its comment
\* and then each of its replies.
RECURSIVE ExpectedCalls(_)
ExpectedCalls(items) ==
    IF items = << >> THEN << >>
    ELSE <<Head(items).text>> \o ReplyTexts(Head(items).replies)
           \o ExpectedCalls(Tail(items))

\* C24: the texts sent to the provider are, for each stored comment in
\* order, the comment and then each of its replies, once each (equal texts
\* are sent again); during a reply loop they are followed by the current
\* comment and the replies before the current one; nothing else is sent,
\* so nothing is sent for an item beyond the cap.
C24_ProviderCalledOncePerText ==
    \A r \in Runs :
        Started(r)
        => LET s == Locals(r)
               n == NumRecords(s.comments_all)
               stored == ExpectedCalls(SubSeq(AllItems(served[r]), 1, n))
           IN  /\ (s.pc \in {"fetch", "comment"} \/ Returned(r))
                    => calls[r] = stored
               /\ s.pc = "reply"
                    => calls[r]
                         = stored \o <<CurrentItem(s).text>>
                             \o SubSeq(ReplyTexts(CurrentItem(s).replies),
                                       1, s.reply_i - 1)

====
